---------------------------- MODULE Spec2Model ----------------------------
(***************************************************************************)
(* Model of the Telegram multi-agent bot: the per-chat session gate        *)
(* (core/session_manager.py, bot/handlers.py), the message interception    *)
(* pipeline AgentSystem._handle_message and AgentSystem.run_task           *)
(* (core/agent_system.py) and the sink TelegramInterface.send_message      *)
(* (bot/interface.py).                                                     *)
(*                                                                         *)
(* Handlers are coroutines on one event loop: the code between two awaits  *)
(* is one atomic action, and handler invocations interleave at awaits.     *)
(*                                                                         *)
(* A text is a sequence of lexemes:                                        *)
(*   "w"    an ordinary word                                               *)
(*   "sp"   a run of whitespace                                            *)
(*   "TERM" the completion token spelled exactly TERMINATE                 *)
(*   "term" the completion token in lower or mixed case                    *)
(*   "NS"   the phrase "Next speaker:" as the library spells it            *)
(*   "ns"   the phrase "next speaker" in lower case                        *)
(*   "hh"   the routing marker "##"                                        *)
(*   "ex"   an execution banner or the marker "exitcode:"                  *)
(***************************************************************************)
EXTENDS Naturals, Sequences, FiniteSets

\* ------------------------------------------------------------------ bounds
MaxLen == 3       \* the longest text classified, in lexemes
GateRounds == 3   \* config.MAX_ROUNDS where the session gate is studied
RunRounds == 5    \* the largest config.MAX_ROUNDS where one run is studied
KeyRounds == 2    \* config.MAX_ROUNDS where the registry is studied
FairRounds == 3   \* the largest config.MAX_ROUNDS where progress is studied
TaskRounds == 3   \* config.MAX_ROUNDS where successive tasks are studied

\* ------------------------------------------------------------- identities
Handlers == {"h1", "h2"}
Chats == {"c1", "c2"}
Lexemes == {"w", "sp", "TERM", "term", "NS", "ns", "hh", "ex"}
NoSession == 0
NoChat == "none"
\* Names for the Session objects alive at one time: one per registry entry
\* and one per handler still holding a Session that was cleared meanwhile.
SessionIds == 1..(Cardinality(Chats) + Cardinality(Handlers))

RECURSIVE SeqsUpTo(_, _)
SeqsUpTo(S, n) ==
    IF n = 0 THEN {<<>>}
    ELSE LET shorter == SeqsUpTo(S, n - 1)
         IN  shorter \cup {Append(s, x) : s \in {t \in shorter : Len(t) = n - 1}, x \in S}

AllTexts == SeqsUpTo(Lexemes, MaxLen)

\* ------------------------------------------------------------ str methods
\* str.strip(): leading and trailing whitespace removed.
RECURSIVE LStrip(_)
LStrip(s) == IF s # <<>> /\ Head(s) = "sp" THEN LStrip(Tail(s)) ELSE s

RECURSIVE RStrip(_)
RStrip(s) ==
    IF s # <<>> /\ s[Len(s)] = "sp" THEN RStrip(SubSeq(s, 1, Len(s) - 1)) ELSE s

Strip(s) == RStrip(LStrip(s))

\* str.upper() and str.lower() on the lexemes whose letter case matters.
Upper(s) ==
    [i \in DOMAIN s |-> IF s[i] = "term" THEN "TERM"
                        ELSE IF s[i] = "ns" THEN "NS_UPPER"
                        ELSE IF s[i] = "NS" THEN "NS_UPPER" ELSE s[i]]

Lower(s) ==
    [i \in DOMAIN s |-> IF s[i] = "TERM" THEN "term"
                        ELSE IF s[i] = "NS" THEN "ns" ELSE s[i]]

\* sub in s
Contains(s, x) == \E i \in DOMAIN s : s[i] = x

\* s.replace(x, ""): every exact occurrence of x removed.
Replace(s, x) == SelectSeq(s, LAMBDA e : e # x)


\* --------------------------------------------------------- message texts
\* The fixed texts of the program, as texts of their own.
DefaultAnswer == <<"default_answer">>
StartNotice == <<"start_notice">>
SuccessNotice == <<"success_notice">>
IncompleteNotice == <<"incomplete_notice">>
ErrorNotice == <<"error_notice">>

\* AgentSystem.ROLES.get(agent_name, ...), the display label of an agent.
ROLES(agent_name) ==
    CASE agent_name = "user_proxy" -> "User Proxy"
      [] agent_name = "analyst" -> "Analyst"
      [] agent_name = "coder" -> "Coder"
      [] agent_name = "executor" -> "Executor"
      [] agent_name = "manager" -> "Manager"
      [] OTHER -> "Agent"

\* ------------------------------------------------------------------ sink
\* What the transport does with one send_message call:
\*   "sent"      the HTML send succeeds
\*   "fallback"  the HTML send raises TelegramError, the plain send succeeds
\*   "lost"      the HTML send raises TelegramError, the plain send raises
\*   "raised"    the HTML send raises an exception that is no TelegramError
SendOutcomes == {"sent", "fallback", "lost", "raised"}

\* TelegramInterface.send_message(text, role) on the log of delivered
\* messages: [log, ok, raised].
send_message(log, txt, role, o) ==
    IF Strip(txt) = <<>>
    THEN [log |-> log, ok |-> FALSE, raised |-> FALSE]
    ELSE IF o \in {"sent", "fallback"}
    THEN [log |-> Append(log, <<txt, role>>), ok |-> TRUE, raised |-> FALSE]
    ELSE IF o = "lost"
    THEN [log |-> log, ok |-> FALSE, raised |-> FALSE]
    ELSE [log |-> log, ok |-> FALSE, raised |-> TRUE]

\* ------------------------------------------------------------ classifier
\* IsService as it would be without the test for the routing marker.
IsService_unmarked(content) ==
    \/ Contains(content, "NS")
    \/ Contains(Lower(content), "ns")

\* The service test of _handle_message.
IsService(content) ==
    \/ Contains(content, "NS")
    \/ Contains(Lower(content), "ns")
    \/ Contains(Lower(content), "hh")

\* The termination test of _handle_message.
HasTerminate(content) == Contains(Upper(content), "TERM")

\* clean_content of _handle_message.
CleanContent(content) == Strip(Replace(content, "TERM"))

\* role_display of _handle_message.
RoleDisplay(agent_name, content) ==
    IF Contains(content, "ex") THEN "Executor (code)" ELSE ROLES(agent_name)

\* The branch _handle_message takes on the last message's text.
Tag(raw) ==
    LET content == Strip(raw)
    IN  IF content = <<>> THEN "Service"
        ELSE IF IsService(content) THEN "Service"
        ELSE IF HasTerminate(content) THEN "Termination"
        ELSE "Content"

\* NewAgentSystem as it would be if the fields were class attributes that an
\* earlier, terminated run had left set.
NewAgentSystem_stale == [termination_detected |-> TRUE, last_message |-> <<"w">>]

\* AgentSystem.__init__: the fields of a new agent system.
NewAgentSystem == [termination_detected |-> FALSE, last_message |-> <<>>]

\* HandleMessage as it would be if a text were not looked at once the
\* completion token has been seen.
HandleMessage_once(a, log, agent_name, raw, o) ==
    LET content == Strip(raw)
        same == [a |-> a, log |-> log, stop |-> FALSE, raised |-> FALSE]
    IN  IF content = <<>> \/ a.termination_detected THEN same
        ELSE IF IsService(content) THEN same
        ELSE IF HasTerminate(content)
        THEN LET clean == CleanContent(content)
                 final == IF clean # <<>> THEN clean ELSE DefaultAnswer
                 sent == send_message(log, final, "Final answer", o)
             IN  [a |-> [termination_detected |-> TRUE,
                         last_message |-> IF sent.raised THEN a.last_message
                                          ELSE final],
                  log |-> sent.log, stop |-> ~sent.raised, raised |-> sent.raised]
        ELSE LET sent == send_message(log, content, RoleDisplay(agent_name, content), o)
             IN  [a |-> a, log |-> sent.log, stop |-> FALSE, raised |-> sent.raised]

\* HandleMessage as it would be if the TERMINATE branch returned False, None
\* like the other branches.
HandleMessage_nonfinal(a, log, agent_name, raw, o) ==
    LET content == Strip(raw)
        same == [a |-> a, log |-> log, stop |-> FALSE, raised |-> FALSE]
    IN  IF content = <<>> THEN same
        ELSE IF IsService(content) THEN same
        ELSE IF HasTerminate(content)
        THEN LET clean == CleanContent(content)
                 final == IF clean # <<>> THEN clean ELSE DefaultAnswer
                 sent == send_message(log, final, "Final answer", o)
             IN  [a |-> [termination_detected |-> TRUE,
                         last_message |-> IF sent.raised THEN a.last_message
                                          ELSE final],
                  log |-> sent.log, stop |-> FALSE, raised |-> sent.raised]
        ELSE LET sent == send_message(log, content, RoleDisplay(agent_name, content), o)
             IN  [a |-> a, log |-> sent.log, stop |-> FALSE, raised |-> sent.raised]

\* HandleMessage as it would be with the TERMINATE test before the service
\* test.
HandleMessage_terminate_first(a, log, agent_name, raw, o) ==
    LET content == Strip(raw)
        same == [a |-> a, log |-> log, stop |-> FALSE, raised |-> FALSE]
    IN  IF content = <<>> THEN same
        ELSE IF HasTerminate(content)
        THEN LET clean == CleanContent(content)
                 final == IF clean # <<>> THEN clean ELSE DefaultAnswer
                 sent == send_message(log, final, "Final answer", o)
             IN  [a |-> [termination_detected |-> TRUE,
                         last_message |-> IF sent.raised THEN a.last_message
                                          ELSE final],
                  log |-> sent.log, stop |-> ~sent.raised, raised |-> sent.raised]
        ELSE IF IsService(content) THEN same
        ELSE LET sent == send_message(log, content, RoleDisplay(agent_name, content), o)
             IN  [a |-> a, log |-> sent.log, stop |-> FALSE, raised |-> sent.raised]

\* HandleMessage as it would be if a text with the execution banner or the
\* exit status were kept from the sink.
HandleMessage_banner_skipped(a, log, agent_name, raw, o) ==
    LET content == Strip(raw)
        same == [a |-> a, log |-> log, stop |-> FALSE, raised |-> FALSE]
    IN  IF content = <<>> THEN same
        ELSE IF IsService(content) THEN same
        ELSE IF HasTerminate(content)
        THEN LET clean == CleanContent(content)
                 final == IF clean # <<>> THEN clean ELSE DefaultAnswer
                 sent == send_message(log, final, "Final answer", o)
             IN  [a |-> [termination_detected |-> TRUE,
                         last_message |-> IF sent.raised THEN a.last_message
                                          ELSE final],
                  log |-> sent.log, stop |-> ~sent.raised, raised |-> sent.raised]
        ELSE IF Contains(content, "ex") THEN same
        ELSE LET sent == send_message(log, content, RoleDisplay(agent_name, content), o)
             IN  [a |-> a, log |-> sent.log, stop |-> FALSE, raised |-> sent.raised]

\* AgentSystem._handle_message(recipient, messages, sender, agent_name) with
\* messages[-1]["content"] = raw, on the agent system a and the sink log,
\* the transport answering o: the new fields, the new log, the returned
\* should_terminate and whether an exception left the handler.
HandleMessage(a, log, agent_name, raw, o) ==
    LET content == Strip(raw)
        same == [a |-> a, log |-> log, stop |-> FALSE, raised |-> FALSE]
    IN  IF content = <<>> THEN same
        ELSE IF IsService(content) THEN same
        ELSE IF HasTerminate(content)
        THEN LET clean == CleanContent(content)
                 final == IF clean # <<>> THEN clean ELSE DefaultAnswer
                 sent == send_message(log, final, "Final answer", o)
             IN  [a |-> [termination_detected |-> TRUE,
                         last_message |-> IF sent.raised THEN a.last_message
                                          ELSE final],
                  log |-> sent.log, stop |-> ~sent.raised, raised |-> sent.raised]
        ELSE LET sent == send_message(log, content, RoleDisplay(agent_name, content), o)
             IN  [a |-> a, log |-> sent.log, stop |-> FALSE, raised |-> sent.raised]

\* ------------------------------------------------------- transition graph
\* allowed_transitions as the group chat would read it with
\* speaker_transitions_type="disallowed": every speaker but the listed ones.
allowed_transitions_disallowed(agent_name) ==
    CASE agent_name = "user_proxy" -> {"user_proxy", "coder", "executor"}
      [] agent_name = "analyst" -> {"analyst", "executor"}
      [] agent_name = "coder" -> {"user_proxy", "analyst", "coder"}
      [] agent_name = "executor" -> {"user_proxy", "coder", "executor"}
      [] OTHER -> {}

\* allowed_transitions of _create_agents.
allowed_transitions(agent_name) ==
    CASE agent_name = "user_proxy" -> {"analyst"}
      [] agent_name = "analyst" -> {"coder", "user_proxy"}
      [] agent_name = "coder" -> {"executor"}
      [] agent_name = "executor" -> {"analyst"}
      [] OTHER -> {}

\* ----------------------------------------------------------------- state
VARIABLES
    max_round,     \* config.MAX_ROUNDS, read once at start-up
    sessions,      \* SessionManager.sessions: chat id -> Session object, or NoSession
    is_busy,       \* Session.is_busy of each Session object
    has_context,   \* whether Session.bot and Session.loop are set
    pc,            \* where each handle_message invocation stands
    chat_id,       \* handle_message: chat_id
    text,          \* handle_message: text
    session,       \* handle_message: session (the Session object it holds)
    agent,         \* the AgentSystem of the run: termination_detected, last_message
    messages,      \* groupchat.messages of the run: <<speaker, content>> in order
    classified,    \* every _handle_message call of the run, in order:
                   \* <<agent_name, content, "continue" | "stop" | "raise">>
    fault,         \* what raised in the run, if anything did
    delivered,     \* the messages the transport delivered for this invocation, in order
    reported,      \* the status notices handle_message tried to send, in order
    result         \* what session.run_task gave: nothing yet, a pair, or an exception

vars == <<max_round, sessions, is_busy, has_context, pc, chat_id, text, session,
          agent, messages, classified, fault, delivered, reported, result>>

gate == <<sessions, is_busy, has_context>>
run == <<agent, messages, classified, fault, result>>

NoResult == [kind |-> "none", terminated |-> FALSE, final |-> <<>>]
Raised == [kind |-> "raised", terminated |-> FALSE, final |-> <<>>]
Returned(a) == [kind |-> "returned", terminated |-> a.termination_detected,
                final |-> a.last_message]

\* Session.__init__, SessionManager.__new__ and Config._init with
\* MAX_ROUNDS = rounds: no session, no invocation.
Start(rounds) ==
    /\ max_round = rounds
    /\ sessions = [k \in Chats |-> NoSession]
    /\ is_busy = [s \in SessionIds |-> FALSE]
    /\ has_context = [s \in SessionIds |-> FALSE]
    /\ pc = [h \in Handlers |-> "idle"]
    /\ chat_id = [h \in Handlers |-> NoChat]
    /\ text = [h \in Handlers |-> <<>>]
    /\ session = [h \in Handlers |-> NoSession]
    /\ agent = [h \in Handlers |-> NewAgentSystem]
    /\ messages = [h \in Handlers |-> <<>>]
    /\ classified = [h \in Handlers |-> <<>>]
    /\ fault = [h \in Handlers |-> "none"]
    /\ delivered = [h \in Handlers |-> <<>>]
    /\ reported = [h \in Handlers |-> <<>>]
    /\ result = [h \in Handlers |-> NoResult]

\* A slot is free before its first invocation and after handle_message has
\* returned or an exception has left it.
Returned_pcs == {"idle", "done"}

\* A Session object is alive while the registry or a running handler refers
\* to it; an object no one refers to is garbage and its name is free again.
Live(reg, held, s) == (\E k \in Chats : reg[k] = s) \/ (\E h \in Handlers : held[h] = s)

\* Session(chat_id): the object a constructor call gives, named by the first
\* free name.
NewSession ==
    CHOOSE s \in SessionIds :
        /\ ~Live(sessions, session, s)
        /\ \A t \in SessionIds : t < s => Live(sessions, session, t)

\* The fields of the objects still alive (a field of garbage reads FALSE).
Collect(field, reg, held) == [s \in SessionIds |-> Live(reg, held, s) /\ field[s]]

\* The locals of a new handle_message invocation in slot h.
Fresh(h, k, txt, s, notices) ==
    /\ chat_id' = [chat_id EXCEPT ![h] = k]
    /\ text' = [text EXCEPT ![h] = txt]
    /\ session' = [session EXCEPT ![h] = s]
    /\ agent' = [agent EXCEPT ![h] = NewAgentSystem]
    /\ messages' = [messages EXCEPT ![h] = <<>>]
    /\ classified' = [classified EXCEPT ![h] = <<>>]
    /\ fault' = [fault EXCEPT ![h] = "none"]
    /\ delivered' = [delivered EXCEPT ![h] = <<>>]
    /\ reported' = [reported EXCEPT ![h] = notices]
    /\ result' = [result EXCEPT ![h] = NoResult]

\* handle_message is over: its locals and the run's objects are gone. What
\* it tried to tell the requester, and what had raised, stay on record.
EndOfLocals(h) ==
    /\ chat_id' = [chat_id EXCEPT ![h] = NoChat]
    /\ text' = [text EXCEPT ![h] = <<>>]
    /\ agent' = [agent EXCEPT ![h] = NewAgentSystem]
    /\ messages' = [messages EXCEPT ![h] = <<>>]
    /\ classified' = [classified EXCEPT ![h] = <<>>]
    /\ delivered' = [delivered EXCEPT ![h] = <<>>]
    /\ result' = [result EXCEPT ![h] = NoResult]
    /\ UNCHANGED fault

\* get_session as it would be without the test chat_id not in self.sessions.
get_session_always_new(k) == [sessions EXCEPT ![k] = NewSession]

\* SessionManager.get_session(k): the registry after the call.
get_session(k) ==
    IF sessions[k] = NoSession
    THEN [sessions EXCEPT ![k] = NewSession]
    ELSE sessions

\* clear_session as it would be with self.sessions.clear() for the deletion.
clear_session_all(k) == [j \in Chats |-> NoSession]

\* SessionManager.clear_session(k): the registry after the call.
clear_session(k) == [sessions EXCEPT ![k] = NoSession]

\* CanAccept as it would be if is_busy were one flag shared by all sessions.
CanAccept_shared(reg, busy, k) == \A j \in Chats : reg[j] # NoSession => ~busy[reg[j]]

\* handle_message line 83, not session.is_busy, on the session get_session(k)
\* gives under the registry reg and the flags busy.
CanAccept(reg, busy, k) == reg[k] # NoSession => ~busy[reg[k]]

\* ------------------------------------------------------------------ gate
\* handle_message, from its entry to its first await (lines 71-96): an
\* update with text raw for chat k arrives and is given to slot h.
\* An empty text returns at once.
Ignore(h, k, raw) ==
    /\ pc[h] \in Returned_pcs
    /\ Strip(raw) = <<>>
    /\ pc' = [pc EXCEPT ![h] = "done"]
    /\ Fresh(h, NoChat, <<>>, NoSession, <<>>)
    /\ UNCHANGED <<max_round, gate>>

\* The session is busy: the busy notice is awaited, nothing else is done.
Reject(h, k, raw) ==
    /\ pc[h] \in Returned_pcs
    /\ Strip(raw) # <<>>
    /\ ~CanAccept(sessions, is_busy, k)
    /\ pc' = [pc EXCEPT ![h] = "rejecting"]
    /\ Fresh(h, k, Strip(raw), get_session(k)[k], <<"busy">>)
    /\ sessions' = get_session(k)
    /\ UNCHANGED <<max_round, is_busy, has_context>>

\* Accept as it would be if the busy flag were not looked at.
Accept_unchecked(h, k, raw) ==
    /\ pc[h] \in Returned_pcs
    /\ Strip(raw) # <<>>
    /\ LET s == get_session(k)[k]
       IN  /\ sessions' = get_session(k)
           /\ is_busy' = [is_busy EXCEPT ![s] = TRUE]
           /\ has_context' = [has_context EXCEPT ![s] = TRUE]
           /\ Fresh(h, k, Strip(raw), s, <<>>)
    /\ pc' = [pc EXCEPT ![h] = "ack1"]
    /\ UNCHANGED max_round

\* The session is free (or new): it is marked busy and the run begins.
Accept(h, k, raw) ==
    /\ pc[h] \in Returned_pcs
    /\ Strip(raw) # <<>>
    /\ CanAccept(sessions, is_busy, k)
    /\ LET s == get_session(k)[k]
       IN  /\ sessions' = get_session(k)
           /\ is_busy' = [is_busy EXCEPT ![s] = TRUE]
           /\ has_context' = [has_context EXCEPT ![s] = TRUE]
           /\ Fresh(h, k, Strip(raw), s, <<>>)
    /\ pc' = [pc EXCEPT ![h] = "ack1"]
    /\ UNCHANGED max_round

\* RejectReply as it would be if the busy branch were inside the try block,
\* so that the finally clause ran for it.
RejectReply_releasing(h) ==
    /\ pc[h] = "rejecting"
    /\ pc' = [pc EXCEPT ![h] = "done"]
    /\ session' = [session EXCEPT ![h] = NoSession]
    /\ is_busy' = Collect([is_busy EXCEPT ![session[h]] = FALSE], sessions, session')
    /\ has_context' = Collect(has_context, sessions, session')
    /\ EndOfLocals(h)
    /\ UNCHANGED <<max_round, sessions, reported>>

\* The busy notice was sent (or not): handle_message returns.
RejectReply(h) ==
    /\ pc[h] = "rejecting"
    /\ pc' = [pc EXCEPT ![h] = "done"]
    /\ session' = [session EXCEPT ![h] = NoSession]
    /\ is_busy' = Collect(is_busy, sessions, session')
    /\ has_context' = Collect(has_context, sessions, session')
    /\ EndOfLocals(h)
    /\ UNCHANGED <<max_round, sessions, reported>>

\* handlers.reset: clear_session, then the reply.
Reset(k) ==
    /\ sessions' = clear_session(k)
    /\ is_busy' = Collect(is_busy, sessions', session)
    /\ has_context' = Collect(has_context, sessions', session)
    /\ UNCHANGED <<max_round, pc, chat_id, text, session, run, delivered, reported>>

\* ------------------------------------------------------------------- run
\* What one call of the turn collaborator (an agent's reply through the
\* language-model backend) gives: a text, no reply, or an exception.
Replies(T) ==
    {[kind |-> "text", content |-> t] : t \in T}
        \cup {[kind |-> "none", content |-> <<>>], [kind |-> "raise", content |-> <<>>]}

\* What a _handle_message call gave its caller.
Ret(r) == IF r.raised THEN "raise" ELSE IF r.stop THEN "stop" ELSE "continue"

\* ChatIsOver as it would be if the round limit were tested one message late.
ChatIsOver_late(chat) == Len(chat) > max_round

\* ChatIsOver as it would be without a round limit.
ChatIsOver_never(chat) == FALSE

\* GroupChat(max_round=config.MAX_ROUNDS): the chat is over once max_round
\* messages are on record.
ChatIsOver(chat) == Len(chat) >= max_round

\* Release as it would be if the flag were cleared at the end of the try
\* block instead of in a finally clause: nothing is cleared after an exception.
Release_unless_raised(h) ==
    /\ session' = [session EXCEPT ![h] = NoSession]
    /\ is_busy' = Collect([is_busy EXCEPT ![session[h]] = (pc[h] = "error_report")],
                          sessions, session')
    /\ has_context' = Collect(has_context, sessions, session')
    /\ EndOfLocals(h)

\* Release as it would be if the finally clause looked the chat's session up
\* in the registry again instead of using the one it had acquired.
Release_by_key(h) ==
    /\ session' = [session EXCEPT ![h] = NoSession]
    /\ is_busy' = Collect([is_busy EXCEPT ![sessions[chat_id[h]]] = FALSE], sessions, session')
    /\ has_context' = Collect(has_context, sessions, session')
    /\ EndOfLocals(h)

\* The finally clause of handle_message: session.is_busy = False, and the
\* handler's reference to the Session ends with it.
Release(h) ==
    /\ session' = [session EXCEPT ![h] = NoSession]
    /\ is_busy' = Collect([is_busy EXCEPT ![session[h]] = FALSE], sessions, session')
    /\ has_context' = Collect(has_context, sessions, session')
    /\ EndOfLocals(h)

\* handle_message line 96: the task is echoed to the chat.
Ack1(h, o) ==
    /\ pc[h] = "ack1"
    /\ LET sent == send_message(delivered[h], text[h], "User", o)
       IN  /\ delivered' = [delivered EXCEPT ![h] = sent.log]
           /\ pc' = [pc EXCEPT ![h] = IF sent.raised THEN "error_report" ELSE "ack2"]
           /\ fault' = [fault EXCEPT ![h] = IF sent.raised THEN "sink" ELSE @]
    /\ UNCHANGED <<max_round, gate, chat_id, text, session, agent, messages,
                   classified, result, reported>>

\* handle_message lines 97-101: the start notice.
Ack2(h, o) ==
    /\ pc[h] = "ack2"
    /\ LET sent == send_message(delivered[h], StartNotice, "System", o)
       IN  /\ delivered' = [delivered EXCEPT ![h] = sent.log]
           /\ pc' = [pc EXCEPT ![h] = IF sent.raised THEN "error_report" ELSE "run_start"]
           /\ fault' = [fault EXCEPT ![h] = IF sent.raised THEN "sink" ELSE @]
    /\ UNCHANGED <<max_round, gate, chat_id, text, session, agent, messages,
                   classified, result, reported>>

\* Raises as it would be if run_task logged the exception and went on to
\* return its pair.
Raises_swallowed(h) ==
    /\ result' = [result EXCEPT ![h] = Returned(agent[h])]
    /\ pc' = [pc EXCEPT ![h] = "report"]

\* AgentSystem.run_task lines 366-368: a_initiate_chat raised, run_task
\* raises again, and handle_message is in its except clause.
Raises(h) ==
    /\ result' = [result EXCEPT ![h] = Raised]
    /\ pc' = [pc EXCEPT ![h] = "error_report"]

\* AgentSystem.run_task lines 370-374: a_initiate_chat returned, run_task
\* returns (termination_detected, last_message) of the agent system a.
Returns(h, a) ==
    /\ result' = [result EXCEPT ![h] = Returned(a)]
    /\ pc' = [pc EXCEPT ![h] = "report"]

\* Session.run_task and AgentSystem.run_task up to the first turn: the bot
\* context is checked, a new AgentSystem is built, and a_initiate_chat hands
\* the task to the manager, whose reply hook (_handle_message, position 0)
\* sees it first; unless the hook ends the chat, the task becomes the first
\* message of the group chat, spoken by user_proxy.
StartRun(h, o) ==
    /\ pc[h] = "run_start"
    /\ IF ~has_context[session[h]]
       THEN /\ Raises(h)
            /\ fault' = [fault EXCEPT ![h] = "context"]
            /\ UNCHANGED <<agent, messages, classified, delivered>>
       ELSE LET r == HandleMessage(NewAgentSystem, delivered[h], "manager", text[h], o)
                chat == <<<<"user_proxy", text[h]>>>>
            IN  /\ agent' = [agent EXCEPT ![h] = r.a]
                /\ delivered' = [delivered EXCEPT ![h] = r.log]
                /\ classified' = [classified EXCEPT
                                    ![h] = <<<<"manager", text[h], Ret(r)>>>>]
                /\ fault' = [fault EXCEPT ![h] = IF r.raised THEN "sink" ELSE @]
                /\ IF r.raised
                   THEN Raises(h) /\ UNCHANGED messages
                   ELSE IF r.stop
                   THEN Returns(h, r.a) /\ UNCHANGED messages
                   ELSE /\ messages' = [messages EXCEPT ![h] = chat]
                        /\ IF ChatIsOver(chat)
                           THEN Returns(h, r.a)
                           ELSE pc' = [pc EXCEPT ![h] = "chat"] /\ UNCHANGED result
    /\ UNCHANGED <<max_round, gate, chat_id, text, session, reported>>

\* The speaker and the text of the latest group chat message.
LastSpeaker(h) == messages[h][Len(messages[h])][1]
LastContent(h) == messages[h][Len(messages[h])][2]

\* Turn as it would be if a reply classified as Service were dropped instead
\* of recorded.
Turn_service_free(h, nxt, o, c) ==
    /\ pc[h] = "chat"
    /\ nxt \in allowed_transitions(LastSpeaker(h))
    /\ LET r == HandleMessage(agent[h], delivered[h], nxt, LastContent(h), o)
           chat == IF Tag(c.content) = "Service" THEN messages[h]
                   ELSE Append(messages[h], <<nxt, c.content>>)
       IN  /\ agent' = [agent EXCEPT ![h] = r.a]
           /\ delivered' = [delivered EXCEPT ![h] = r.log]
           /\ classified' = [classified EXCEPT
                 ![h] = Append(@, <<nxt, LastContent(h), Ret(r)>>)]
           /\ fault' = [fault EXCEPT ![h] =
                 IF r.raised THEN "sink"
                 ELSE IF ~r.stop /\ c.kind = "raise" THEN "collaborator" ELSE @]
           /\ IF r.raised \/ (~r.stop /\ c.kind = "raise")
              THEN Raises(h) /\ UNCHANGED messages
              ELSE IF r.stop \/ c.kind = "none"
              THEN Returns(h, r.a) /\ UNCHANGED messages
              ELSE /\ messages' = [messages EXCEPT ![h] = chat]
                   /\ IF ChatIsOver(chat)
                      THEN Returns(h, r.a)
                      ELSE pc' = [pc EXCEPT ![h] = "chat"] /\ UNCHANGED result
    /\ UNCHANGED <<max_round, gate, chat_id, text, session, reported>>

\* One round of the group chat: the next speaker nxt is one the transition
\* graph allows; its reply hook sees the latest message; unless the hook ends
\* the chat, the agent's own reply c is produced and becomes the next
\* message; the chat ends when max_round messages are on record.
Turn(h, nxt, o, c) ==
    /\ pc[h] = "chat"
    /\ nxt \in allowed_transitions(LastSpeaker(h))
    /\ LET r == HandleMessage(agent[h], delivered[h], nxt, LastContent(h), o)
           chat == Append(messages[h], <<nxt, c.content>>)
       IN  /\ agent' = [agent EXCEPT ![h] = r.a]
           /\ delivered' = [delivered EXCEPT ![h] = r.log]
           /\ classified' = [classified EXCEPT
                 ![h] = Append(@, <<nxt, LastContent(h), Ret(r)>>)]
           /\ fault' = [fault EXCEPT ![h] =
                 IF r.raised THEN "sink"
                 ELSE IF ~r.stop /\ c.kind = "raise" THEN "collaborator" ELSE @]
           /\ IF r.raised \/ (~r.stop /\ c.kind = "raise")
              THEN Raises(h) /\ UNCHANGED messages
              ELSE IF r.stop \/ c.kind = "none"
              THEN Returns(h, r.a) /\ UNCHANGED messages
              ELSE /\ messages' = [messages EXCEPT ![h] = chat]
                   /\ IF ChatIsOver(chat)
                      THEN Returns(h, r.a)
                      ELSE pc' = [pc EXCEPT ![h] = "chat"] /\ UNCHANGED result
    /\ UNCHANGED <<max_round, gate, chat_id, text, session, reported>>

\* The selection of the next speaker fails (its own backend call raises).
SelectFails(h) ==
    /\ pc[h] = "chat"
    /\ Raises(h)
    /\ fault' = [fault EXCEPT ![h] = "selection"]
    /\ UNCHANGED <<max_round, gate, chat_id, text, session, agent, messages,
                   classified, delivered, reported>>

\* handle_message lines 107-117: the status notice; when the send returns,
\* the finally clause; when it raises, the except clause.
Report(h, o) ==
    /\ pc[h] = "report"
    /\ LET notice == IF result[h].terminated THEN SuccessNotice ELSE IncompleteNotice
           kind == IF result[h].terminated THEN "success" ELSE "incomplete"
           sent == send_message(delivered[h], notice, "System", o)
       IN  /\ reported' = [reported EXCEPT ![h] = Append(@, kind)]
           /\ IF sent.raised
              THEN /\ pc' = [pc EXCEPT ![h] = "error_report"]
                   /\ delivered' = [delivered EXCEPT ![h] = sent.log]
                   /\ UNCHANGED <<is_busy, has_context, session, chat_id, text, run>>
              ELSE /\ pc' = [pc EXCEPT ![h] = "done"]
                   /\ Release(h)
    /\ UNCHANGED <<max_round, sessions>>

\* ErrorReport as it would be if the except clause also dropped the chat's
\* session.
ErrorReport_dropping(h, o) ==
    /\ pc[h] = "error_report"
    /\ o \in SendOutcomes
    /\ reported' = [reported EXCEPT ![h] = Append(@, "error")]
    /\ pc' = [pc EXCEPT ![h] = "done"]
    /\ sessions' = clear_session(chat_id[h])
    /\ session' = [session EXCEPT ![h] = NoSession]
    /\ is_busy' = Collect([is_busy EXCEPT ![session[h]] = FALSE], sessions', session')
    /\ has_context' = Collect(has_context, sessions', session')
    /\ EndOfLocals(h)
    /\ UNCHANGED max_round

\* handle_message lines 119-131: the except clause sends the error notice,
\* and whether that send returns or raises, the finally clause runs.
ErrorReport(h, o) ==
    /\ pc[h] = "error_report"
    /\ o \in SendOutcomes
    /\ reported' = [reported EXCEPT ![h] = Append(@, "error")]
    /\ pc' = [pc EXCEPT ![h] = "done"]
    /\ Release(h)
    /\ UNCHANGED <<max_round, sessions>>

\* -------------------------------------------------------- specifications
Agents == {"user_proxy", "analyst", "coder", "executor"}

\* One step of the program: the slots H take updates for the chats K with
\* the texts Raw, the transport answers with O, and the agents reply with
\* the texts T.
Step(H, K, Raw, O, T) ==
    \/ \E h \in H, k \in K, raw \in Raw : Ignore(h, k, raw)
    \/ \E h \in H, k \in K, raw \in Raw : Reject(h, k, raw)
    \/ \E h \in H, k \in K, raw \in Raw : Accept(h, k, raw)
    \/ \E h \in H : RejectReply(h)
    \/ \E k \in K : Reset(k)
    \/ \E h \in H, o \in O : Ack1(h, o)
    \/ \E h \in H, o \in O : Ack2(h, o)
    \/ \E h \in H, o \in O : StartRun(h, o)
    \/ \E h \in H, nxt \in Agents, o \in O, c \in Replies(T) : Turn(h, nxt, o, c)
    \/ \E h \in H : SelectFails(h)
    \/ \E h \in H, o \in O : Report(h, o)
    \/ \E h \in H, o \in O : ErrorReport(h, o)

\* The session gate: two handler slots and one chat, every request kind, a
\* transport that delivers or raises, agents that talk or finish.
TaskTexts == {<<"w">>, <<"sp">>}
TurnTexts == {<<"w">>, <<"w", "sp", "TERM">>}
Outcomes == {"sent", "raised"}

Init == Start(GateRounds)
Next == Step(Handlers, {"c1"}, TaskTexts, Outcomes, TurnTexts)
Spec == Init /\ [][Next]_vars

\* One conversation at a time: one handler slot and one chat, round limits
\* from 1 to RunRounds, task and agent texts of every classification, a
\* transport that delivers or raises.
RunTaskTexts == {<<"w">>, <<"sp">>, <<"hh">>}
RunTurnTexts == {<<"w">>, <<"term", "sp", "w">>, <<"hh">>, <<"ex">>}
RunOutcomes == {"sent", "raised"}

InitRun == \E rounds \in 1..RunRounds : Start(rounds)
NextRun ==
    \/ \E raw \in RunTaskTexts : Ignore("h1", "c1", raw)
    \/ \E raw \in RunTaskTexts : Accept("h1", "c1", raw)
    \/ \E o \in RunOutcomes : Ack1("h1", o)
    \/ \E o \in RunOutcomes : Ack2("h1", o)
    \/ \E o \in RunOutcomes : StartRun("h1", o)
    \/ \E nxt \in Agents, o \in RunOutcomes, c \in Replies(RunTurnTexts) : Turn("h1", nxt, o, c)
    \/ SelectFails("h1")
    \/ \E o \in RunOutcomes : Report("h1", o)
    \/ \E o \in RunOutcomes : ErrorReport("h1", o)
SpecRun == InitRun /\ [][NextRun]_vars

\* The same for round limits from 1 to FairRounds, when every await of an
\* invocation in flight eventually returns or raises: the sends of
\* handle_message, the hook's sends, the agents' replies and the speaker
\* selection.
InitFair == \E rounds \in 1..FairRounds : Start(rounds)
RunProgress ==
    \/ \E o \in RunOutcomes : Ack1("h1", o)
    \/ \E o \in RunOutcomes : Ack2("h1", o)
    \/ \E o \in RunOutcomes : StartRun("h1", o)
    \/ \E nxt \in Agents, o \in RunOutcomes, c \in Replies(RunTurnTexts) : Turn("h1", nxt, o, c)
    \/ SelectFails("h1")
    \/ \E o \in RunOutcomes : Report("h1", o)
    \/ \E o \in RunOutcomes : ErrorReport("h1", o)
SpecRunFair == InitFair /\ [][NextRun]_vars /\ WF_vars(RunProgress)

\* The registry: two handler slots and two chats, short runs, a transport
\* that delivers, agents that talk, finish or fail.
KeyTaskTexts == {<<"w">>, <<"sp">>}
KeyTurnTexts == {<<"w">>}
KeyOutcomes == {"sent"}

InitKeys == Start(KeyRounds)
NextKeys == Step(Handlers, Chats, KeyTaskTexts, KeyOutcomes, KeyTurnTexts)
SpecKeys == InitKeys /\ [][NextKeys]_vars

\* Successive tasks of one session: the first update for the chat is handled
\* in slot h1 and, when that invocation is over, the second in slot h2.
SuccessiveTaskTexts == {<<"w">>, <<"w", "sp", "term">>}
TaskTurnTexts == {<<"w">>, <<"TERM", "sp", "w">>}

InitTasks == Start(TaskRounds)
NextTasks ==
    \/ \E raw \in SuccessiveTaskTexts : pc["h1"] = "idle" /\ Accept("h1", "c1", raw)
    \/ \E raw \in SuccessiveTaskTexts :
          pc["h1"] = "done" /\ pc["h2"] = "idle" /\ Accept("h2", "c1", raw)
    \/ \E h \in Handlers, o \in Outcomes : Ack1(h, o)
    \/ \E h \in Handlers, o \in Outcomes : Ack2(h, o)
    \/ \E h \in Handlers, o \in Outcomes : StartRun(h, o)
    \/ \E h \in Handlers, nxt \in Agents, o \in Outcomes, c \in Replies(TaskTurnTexts) :
          Turn(h, nxt, o, c)
    \/ \E h \in Handlers : SelectFails(h)
    \/ \E h \in Handlers, o \in Outcomes : Report(h, o)
    \/ \E h \in Handlers, o \in Outcomes : ErrorReport(h, o)
SpecTasks == InitTasks /\ [][NextTasks]_vars

\* The classifier alone: one agent system is handed one text, any text of
\* up to MaxLen lexemes, twice, for any of two agents, by a transport that
\* delivers or raises.
ClassifyAgents == {"analyst", "executor"}
ClassifyOutcomes == {"sent", "raised"}
ClassifyCalls == 2

InitClassify ==
    /\ max_round = GateRounds
    /\ sessions = [k \in Chats |-> NoSession]
    /\ is_busy = [s \in SessionIds |-> FALSE]
    /\ has_context = [s \in SessionIds |-> FALSE]
    /\ pc = [h \in Handlers |-> IF h = "h1" THEN "classify" ELSE "idle"]
    /\ chat_id = [h \in Handlers |-> NoChat]
    /\ \E txt \in AllTexts : text = [h \in Handlers |-> IF h = "h1" THEN txt ELSE <<>>]
    /\ session = [h \in Handlers |-> NoSession]
    /\ agent = [h \in Handlers |-> NewAgentSystem]
    /\ messages = [h \in Handlers |-> <<>>]
    /\ classified = [h \in Handlers |-> <<>>]
    /\ fault = [h \in Handlers |-> "none"]
    /\ delivered = [h \in Handlers |-> <<>>]
    /\ reported = [h \in Handlers |-> <<>>]
    /\ result = [h \in Handlers |-> NoResult]

\* One call of the reply hook of agent_name with text[h] as the last message.
Classify(h, agent_name, o) ==
    /\ pc[h] = "classify"
    /\ Len(classified[h]) < ClassifyCalls
    /\ LET r == HandleMessage(agent[h], delivered[h], agent_name, text[h], o)
       IN  /\ agent' = [agent EXCEPT ![h] = r.a]
           /\ delivered' = [delivered EXCEPT ![h] = r.log]
           /\ classified' = [classified EXCEPT ![h] = Append(@, <<agent_name, text[h], Ret(r)>>)]
    /\ UNCHANGED <<max_round, gate, pc, chat_id, text, session, messages, fault,
                   reported, result>>

NextClassify == \E agent_name \in ClassifyAgents, o \in ClassifyOutcomes : Classify("h1", agent_name, o)
SpecClassify == InitClassify /\ [][NextClassify]_vars

\* ---------------------------------------------------------------- claims
\* Where a handle_message invocation stands after its submission was accepted.
AcceptedPcs == {"ack1", "ack2", "run_start", "chat", "report", "error_report"}
InFlight(h) == pc[h] \in AcceptedPcs

\* C1: of two handle_message invocations in flight for one chat that got the
\* same Session object (no reset in between), exactly one was accepted and
\* runs; the other was rejected as busy.
C1_ExactlyOneAccepted ==
    \A g, h \in Handlers :
        (/\ g # h
         /\ pc[g] \notin Returned_pcs
         /\ pc[h] \notin Returned_pcs
         /\ chat_id[g] = chat_id[h]
         /\ session[g] = session[h])
        => (InFlight(g) /\ pc[h] = "rejecting") \/ (InFlight(h) /\ pc[g] = "rejecting")

C1_Witness ==
    /\ pc["h1"] = "chat"
    /\ pc["h2"] = "rejecting"
    /\ chat_id["h1"] = "c1" /\ chat_id["h2"] = "c1"
    /\ session["h1"] = session["h2"]
    /\ sessions["c1"] = session["h1"]

\* C2: for every chat, at most one accepted run is in flight at any time,
\* whatever submit-task and reset requests arrive for the chat.
C2_OneRunPerKey ==
    \A g, h \in Handlers :
        (InFlight(g) /\ InFlight(h) /\ chat_id[g] = chat_id[h]) => g = h

\* C3: when handle_message finishes after an accepted submission, whichever
\* way the run ended, the busy flag of the session it acquired is false; and
\* a busy flag is never left behind without its run.
C3_Released ==
    /\ [][\A h \in Handlers :
            (InFlight(h) /\ pc'[h] \notin AcceptedPcs)
            => (pc'[h] = "done" /\ ~is_busy'[session[h]])]_vars
    /\ [](\A s \in SessionIds :
            is_busy[s] => \E h \in Handlers : InFlight(h) /\ session[h] = s)

C3_Witness ==
    /\ pc["h1"] = "done"
    /\ reported["h1"] = <<"success", "error">>
    /\ sessions["c1"] # NoSession
    /\ ~is_busy[sessions["c1"]]

\* C4: a submission rejected as busy leaves the registry and every busy flag
\* as they are, at the rejection and when the handler returns; the session
\* is still busy after the rejection; the rejected invocation has no agent
\* system, no group chat and no collaborator call.
C4_RejectionFrame ==
    /\ [][\A h \in Handlers :
            (pc'[h] = "rejecting" \/ pc[h] = "rejecting")
            => /\ (pc[h] # pc'[h] => sessions' = sessions /\ is_busy' = is_busy)
               /\ (pc'[h] = "rejecting" /\ pc[h] # "rejecting"
                     => is_busy'[session'[h]] /\ sessions'[chat_id'[h]] = session'[h])
               /\ (pc[h] = "rejecting" /\ pc'[h] # "rejecting"
                     => pc'[h] = "done" /\ reported'[h] = <<"busy">>)]_vars
    /\ [](\A h \in Handlers :
            pc[h] = "rejecting"
            => /\ agent[h] = NewAgentSystem
               /\ messages[h] = <<>>
               /\ classified[h] = <<>>
               /\ delivered[h] = <<>>
               /\ result[h] = NoResult)

C4_Witness ==
    /\ pc["h2"] = "done"
    /\ reported["h2"] = <<"busy">>
    /\ pc["h1"] = "chat"
    /\ is_busy[session["h1"]]
    /\ sessions["c1"] = session["h1"]

\* C5: once the turn collaborator has raised in a run, run_task has raised
\* and returned no pair, no further turn or classification is made for the
\* run, and the one status the handler reports before it finishes is the
\* error notice, neither success nor incomplete.
C5_FailurePropagates ==
    /\ [](\A h \in Handlers :
            (fault[h] = "collaborator" /\ pc[h] # "done")
            => /\ pc[h] = "error_report"
               /\ result[h] = Raised
               /\ reported[h] = <<>>)
    /\ [][\A h \in Handlers :
            (fault[h] = "collaborator" /\ pc[h] = "error_report")
            => \/ /\ pc'[h] = "error_report"
                  /\ messages'[h] = messages[h]
                  /\ classified'[h] = classified[h]
                  /\ delivered'[h] = delivered[h]
               \/ /\ pc'[h] = "done"
                  /\ reported'[h] = <<"error">>]_vars

C5_Witness ==
    /\ pc["h1"] = "done"
    /\ fault["h1"] = "collaborator"
    /\ reported["h1"] = <<"error">>

\* C6: when a run that ended with a collaborator failure finishes, the
\* registry is left as it is; if the session the run acquired is still the
\* chat's registered session, it stays registered, its busy flag is false
\* and the busy check of the next submission for the chat passes.
C6_SessionSurvivesFailure ==
    [][\A h \in Handlers :
         (fault[h] = "collaborator" /\ pc[h] = "error_report" /\ pc'[h] # pc[h])
         => /\ sessions' = sessions
            /\ sessions[chat_id[h]] = session[h]
                 => /\ sessions'[chat_id[h]] = session[h]
                    /\ ~is_busy'[session[h]]
                    /\ CanAccept(sessions', is_busy', chat_id[h])]_vars

C6_Witness ==
    /\ pc["h1"] = "done"
    /\ fault["h1"] = "collaborator"
    /\ sessions["c1"] # NoSession
    /\ ~is_busy[sessions["c1"]]
    /\ CanAccept(sessions, is_busy, "c1")
    /\ pc["h2"] = "idle"

\* C7: the group chat never holds more than max_round messages, and a run
\* whose chat reached max_round messages with no text classified as
\* Termination returns terminated = FALSE.
C7_RoundsBounded ==
    \A h \in Handlers :
        /\ Len(messages[h]) <= max_round
        /\ (/\ pc[h] = "report"
            /\ Len(messages[h]) = max_round
            /\ \A i \in DOMAIN classified[h] : Tag(classified[h][i][2]) # "Termination")
           => (result[h].kind = "returned" /\ ~result[h].terminated)

C7_Witness ==
    /\ pc["h1"] = "report"
    /\ max_round >= 3
    /\ Len(messages["h1"]) = max_round
    /\ Len(classified["h1"]) = max_round
    /\ result["h1"].kind = "returned"
    /\ ~result["h1"].terminated

\* The transition graph as the specification lists it.
C8_Edges ==
    {<<"user_proxy", "analyst">>, <<"analyst", "coder">>, <<"analyst", "user_proxy">>,
     <<"coder", "executor">>, <<"executor", "analyst">>}

\* C8: in every group chat the first speaker is user_proxy and every two
\* consecutive messages have speakers joined by an edge of the fixed graph
\* user_proxy -> analyst, analyst -> coder | user_proxy, coder -> executor,
\* executor -> analyst.
C8_GraphFollowed ==
    \A h \in Handlers :
        /\ messages[h] # <<>> => messages[h][1][1] = "user_proxy"
        /\ \A i \in 1..(Len(messages[h]) - 1) :
              <<messages[h][i][1], messages[h][i + 1][1]>> \in C8_Edges

C8_Witness ==
    /\ Len(messages["h1"]) = 5
    /\ [i \in 1..5 |-> messages["h1"][i][1]]
         = <<"user_proxy", "analyst", "coder", "executor", "analyst">>

\* The payload as the specification defines it: the completion token
\* removed in any letter case, then trimmed.
C9_Payload(raw) ==
    Strip(SelectSeq(raw, LAMBDA e : e \notin {"TERM", "term"}))

\* C9: after a text was classified as Termination and its final answer sent,
\* the final answer is the text with every occurrence of the completion
\* token removed, whatever its letter case, and trimmed; when nothing is left
\* it is the default final message.
C9_TokenStrippedAnyCase ==
    \A h \in Handlers :
        \A i \in DOMAIN classified[h] :
            classified[h][i][3] = "stop"
            => agent[h].last_message =
                 (IF C9_Payload(classified[h][i][2]) # <<>>
                  THEN C9_Payload(classified[h][i][2]) ELSE DefaultAnswer)

\* C10 as stated: classifying a text changes no field of the agent system
\* and sends nothing, and a second classification of the text returns what
\* the first returned.
C10_NoSideEffect ==
    [][\A h \in Handlers :
         classified'[h] # classified[h]
         => /\ agent'[h] = agent[h]
            /\ delivered'[h] = delivered[h]
            /\ \A i \in DOMAIN classified'[h] :
                  classified'[h][i][3] = classified'[h][1][3]]_vars

\* The latest call of the reply hook on record after a step.
C10_Latest(h) == classified'[h][Len(classified'[h])]

\* C10 as amended: the branch taken and the text handed to the transport
\* depend on the classified text alone, not on the agent system's fields or
\* on earlier calls. A Service text changes nothing and sends nothing. A
\* Content text changes no field and, unless the transport raises, is sent
\* trimmed once per call. A Termination text sets termination_detected and,
\* unless the transport raises, sets last_message to the final answer and
\* sends it once per call.
C10_FunctionOfText ==
    [][\A h \in Handlers :
         classified'[h] # classified[h]
         => LET raw == C10_Latest(h)[2]
                ret == C10_Latest(h)[3]
                tag == Tag(raw)
                clean == Strip(Replace(Strip(raw), "TERM"))
                final == IF clean # <<>> THEN clean ELSE DefaultAnswer
            IN  /\ tag = "Service"
                     => ret = "continue" /\ agent'[h] = agent[h] /\ delivered'[h] = delivered[h]
                /\ tag = "Content"
                     => /\ ret \in {"continue", "raise"}
                        /\ agent'[h] = agent[h]
                        /\ ret = "continue"
                             => /\ Len(delivered'[h]) = Len(delivered[h]) + 1
                                /\ delivered'[h][Len(delivered'[h])][1] = Strip(raw)
                        /\ ret = "raise" => delivered'[h] = delivered[h]
                /\ tag = "Termination"
                     => /\ ret \in {"stop", "raise"}
                        /\ agent'[h].termination_detected
                        /\ ret = "stop"
                             => /\ agent'[h].last_message = final
                                /\ delivered'[h] = Append(delivered[h], <<final, "Final answer">>)
                        /\ ret = "raise"
                             => /\ delivered'[h] = delivered[h]
                                /\ agent'[h].last_message = agent[h].last_message]_vars

C10_Witness ==
    /\ Len(classified["h1"]) = 2
    /\ classified["h1"][1][3] = "stop"
    /\ classified["h1"][2][3] = "stop"
    /\ Len(delivered["h1"]) = 2
    /\ delivered["h1"][1] = delivered["h1"][2]
    /\ agent["h1"].termination_detected

\* The messages the reply hook handed to the transport, as opposed to the
\* echo and the notices of handle_message.
HandlerRoles == {"User", "System"}

\* A step in which the reply hook was called for the run of h, and the call.
Classifies(h) == Len(classified'[h]) = Len(classified[h]) + 1
Call(h) == classified'[h][Len(classified'[h])]

\* A Service text as the specification defines it: empty or whitespace only,
\* or carrying a turn announcement or a routing marker.
C11_Service(raw) ==
    Strip(raw) = <<>> \/ \E i \in DOMAIN raw : raw[i] \in {"NS", "ns", "hh"}

\* C11 as stated: no text classified as Service is in the history of the
\* group chat, and none is delivered to the sink.
C11_ServiceInvisible ==
    \A h \in Handlers :
        /\ \A i \in DOMAIN messages[h] : ~C11_Service(messages[h][i][2])
        /\ \A i \in DOMAIN delivered[h] : ~C11_Service(delivered[h][i][1])

\* C11 as amended: the reply hook never hands a text classified as Service
\* to the sink, and a call of the hook on such a text returns without
\* changing the agent system or the sink. (The group chat records the text
\* all the same, and handle_message echoes the task before any
\* classification.)
C11_ServiceNotForwarded ==
    /\ [](\A h \in Handlers :
            \A i \in DOMAIN delivered[h] :
                delivered[h][i][2] \notin HandlerRoles
                => ~C11_Service(delivered[h][i][1]))
    /\ [][\A h \in Handlers :
            (Classifies(h) /\ C11_Service(Call(h)[2]))
            => /\ Call(h)[3] = "continue"
               /\ agent'[h] = (IF Len(classified'[h]) = 1 THEN NewAgentSystem ELSE agent[h])
               /\ delivered'[h] = delivered[h]]_vars

C11_Witness ==
    /\ pc["h1"] = "chat"
    /\ Len(classified["h1"]) = 3
    /\ classified["h1"][3][2] = <<"hh">>
    /\ messages["h1"][2][2] = <<"hh">>
    /\ Len(delivered["h1"]) = 4
    /\ \A i \in DOMAIN delivered["h1"] : delivered["h1"][i][1] # <<"hh">>

\* The texts the sink received as Content (neither a system notice nor a
\* final answer), and the Content utterances of the group chat, in order.
ContentDeliveries(h) ==
    LET sel == SelectSeq(delivered[h], LAMBDA e : e[2] \notin {"System", "Final answer"})
    IN  [i \in DOMAIN sel |-> sel[i][1]]

ContentUtterances(h) ==
    LET sel == SelectSeq(messages[h], LAMBDA e : Tag(e[2]) = "Content")
    IN  [i \in DOMAIN sel |-> Strip(sel[i][2])]

\* C12: when a run has returned, the Content deliveries made to the sink are
\* the Content utterances of the conversation, each once and in round order,
\* the task included.
C12_EachContentOnce ==
    \A h \in Handlers :
        pc[h] = "report" => ContentDeliveries(h) = ContentUtterances(h)

\* C13: a call of the hook on a text classified as Termination ends the
\* conversation as terminated: the final answer, which is the cleaned payload
\* or, when that is empty, the default final message, is delivered once, and
\* run_task returns (TRUE, that final answer).
C13_TerminationReturns ==
    [][\A h \in Handlers :
         (Classifies(h) /\ Tag(Call(h)[2]) = "Termination")
         => LET payload == C9_Payload(Call(h)[2])
                final == IF payload # <<>> THEN payload ELSE DefaultAnswer
            IN  /\ pc'[h] = "report"
                /\ result'[h] = [kind |-> "returned", terminated |-> TRUE, final |-> final]
                /\ delivered'[h] = Append(delivered[h], <<final, "Final answer">>)]_vars

\* C14: clear_session removes the entry of its chat and nothing else (the
\* other chats' entries, the invocations in flight and their sessions' flags
\* stay); the get_session that follows for the chat gives a Session object
\* no one held before, whose busy flag is false, so that the submission is
\* accepted, and whose run starts from a new agent system and an empty chat.
C14_ClearThenCreate ==
    [][\A k \in Chats :
         /\ (sessions[k] # NoSession /\ sessions'[k] # sessions[k])
            => /\ sessions'[k] = NoSession
               /\ \A j \in Chats \ {k} : sessions'[j] = sessions[j]
               /\ pc' = pc /\ session' = session
               /\ \A h \in Handlers :
                     session[h] # NoSession => is_busy'[session[h]] = is_busy[session[h]]
         /\ (sessions[k] = NoSession /\ sessions'[k] # NoSession)
            => /\ ~Live(sessions, session, sessions'[k])
               /\ ~is_busy[sessions'[k]]
               /\ \A j \in Chats \ {k} : sessions'[j] = sessions[j]
               /\ \E h \in Handlers :
                     /\ pc[h] \in Returned_pcs /\ pc'[h] = "ack1"
                     /\ chat_id'[h] = k /\ session'[h] = sessions'[k]
                     /\ agent'[h] = NewAgentSystem
                     /\ messages'[h] = <<>>
                     /\ classified'[h] = <<>>]_vars

C14_Witness ==
    /\ InFlight("h1") /\ chat_id["h1"] = "c1"
    /\ pc["h2"] = "ack1" /\ chat_id["h2"] = "c1"
    /\ session["h1"] # session["h2"]
    /\ sessions["c1"] = session["h2"]
    /\ sessions["c2"] # NoSession

\* C15: no call of the reply hook ends with an exception because a delivery
\* failed: whatever the transport does, the hook returns and the run goes on.
C15_DeliveryNeverAborts ==
    \A h \in Handlers :
        \A i \in DOMAIN classified[h] : classified[h][i][3] # "raise"

\* C16: within a run, once termination has been detected the flag stays set
\* and no further hook call or turn is made; once run_task has returned or
\* raised, its outcome stays what it is and the run never goes back to the
\* chat.
C16_Monotone ==
    [][\A h \in Handlers :
         /\ (agent[h].termination_detected /\ pc'[h] # "done")
            => /\ agent'[h].termination_detected
               /\ messages'[h] = messages[h]
               /\ classified'[h] = classified[h]
         /\ (result[h] # NoResult /\ pc'[h] # "done")
            => /\ result'[h] = result[h]
               /\ pc'[h] \in {"report", "error_report"}
               /\ messages'[h] = messages[h]
               /\ classified'[h] = classified[h]]_vars

C16_Witness ==
    /\ pc["h1"] = "error_report"
    /\ agent["h1"].termination_detected
    /\ result["h1"].kind = "returned"
    /\ result["h1"].terminated
    /\ reported["h1"] = <<"success">>
    /\ Len(messages["h1"]) >= 2

\* C17: every run that was started returns or raises: run_task is eventually
\* over, for every round limit and also when every reply is a Service text,
\* because a chat still going on holds fewer than max_round messages and
\* every turn that leaves it going on adds one.
C17_Terminates ==
    /\ \A h \in Handlers :
          (pc[h] = "run_start") ~> (pc[h] \in {"report", "error_report"})
    /\ [](\A h \in Handlers : pc[h] = "chat" => Len(messages[h]) < max_round)
    /\ [][\A h \in Handlers :
            (pc[h] = "chat" /\ pc'[h] = "chat")
            => Len(messages'[h]) = Len(messages[h]) + 1]_vars

C17_Witness ==
    /\ pc["h1"] = "report"
    /\ max_round >= 3
    /\ Len(messages["h1"]) = max_round
    /\ \A i \in 1..Len(messages["h1"]) : messages["h1"][i][2] = <<"hh">>
    /\ result["h1"].kind = "returned"

\* C18 as stated: the round counter, the number of messages of the group
\* chat, is advanced only by utterances that are not classified as Service.
C18_ServiceTurnsFree ==
    [][\A h \in Handlers :
         (pc[h] = "chat" /\ Len(messages'[h]) > Len(messages[h]))
         => Tag(messages'[h][Len(messages'[h])][2]) # "Service"]_vars

\* C18 as amended: the round counter advances by exactly 1 for each recorded
\* utterance, whatever its classification: every message is appended at the
\* end of the history, a turn after which the chat goes on has added one
\* message, and the counter stays within max_round; a Service reply consumes
\* a round like any other.
C18_EveryTurnCounts ==
    [][\A h \in Handlers :
         /\ (messages'[h] # messages[h] /\ pc'[h] # "done")
            => /\ Len(messages'[h]) = Len(messages[h]) + 1
               /\ SubSeq(messages'[h], 1, Len(messages[h])) = messages[h]
               /\ Len(messages'[h]) <= max_round
         /\ (pc[h] = "chat" /\ Classifies(h) /\ pc'[h] = "chat")
            => /\ Call(h)[3] = "continue"
               /\ Len(messages'[h]) = Len(messages[h]) + 1]_vars

C18_Witness ==
    /\ pc["h1"] = "report"
    /\ max_round = 3
    /\ Len(messages["h1"]) = 3
    /\ messages["h1"][1][2] = <<"w">>
    /\ messages["h1"][2][2] = <<"hh">>
    /\ messages["h1"][3][2] = <<"hh">>
    /\ ~result["h1"].terminated

\* A text that carries a control marker ("next speaker" in any letter case,
\* or "##"), and one that carries the completion token in any letter case.
C19_Marked(raw) == \E i \in DOMAIN raw : raw[i] \in {"NS", "ns", "hh"}
C19_Tokened(raw) == \E i \in DOMAIN raw : raw[i] \in {"TERM", "term"}

\* C19: a call of the hook on a text that carries both a control marker and
\* the completion token takes the Service branch: it returns to continue,
\* leaves the termination flag and the final answer as they are, and sends
\* nothing.
C19_ServiceFirst ==
    [][\A h \in Handlers :
         (Classifies(h) /\ C19_Marked(Call(h)[2]) /\ C19_Tokened(Call(h)[2]))
         => /\ Call(h)[3] = "continue"
            /\ agent'[h] = agent[h]
            /\ delivered'[h] = delivered[h]]_vars

C19_Witness ==
    /\ text["h1"] = <<"TERM", "sp", "hh">>
    /\ Len(classified["h1"]) = 2
    /\ ~agent["h1"].termination_detected
    /\ delivered["h1"] = <<>>

\* C20: the registry maps different chats to different Session objects, and
\* a get_session call (made by a handle_message invocation when it starts)
\* returns the chat's registered Session: for a chat that has one, the
\* registry is left as it is, the object returned is the one registered,
\* its busy flag is not reset, and the caller is rejected exactly when the
\* flag was set.
C20_OneSessionPerKey ==
    /\ [](\A j, k \in Chats :
            (j # k /\ sessions[j] # NoSession) => sessions[j] # sessions[k])
    /\ [][\A h \in Handlers :
            (pc[h] \in Returned_pcs /\ pc'[h] \in {"rejecting", "ack1"})
            => /\ sessions'[chat_id'[h]] # NoSession
               /\ session'[h] = sessions'[chat_id'[h]]
               /\ \A j \in Chats \ {chat_id'[h]} : sessions'[j] = sessions[j]
               /\ sessions[chat_id'[h]] # NoSession
                    => /\ sessions' = sessions
                       /\ is_busy[session'[h]] => is_busy'[session'[h]]
                       /\ is_busy[session'[h]] <=> pc'[h] = "rejecting"]_vars

C20_Witness ==
    /\ pc["h1"] = "chat" /\ chat_id["h1"] = "c2"
    /\ pc["h2"] = "rejecting" /\ chat_id["h2"] = "c2"
    /\ session["h1"] = session["h2"]
    /\ sessions["c2"] = session["h1"]
    /\ sessions["c1"] # NoSession
    /\ is_busy[sessions["c2"]]

\* C21: a submission is rejected exactly when its own chat's session is
\* registered and busy, whatever runs for other chats; and a step changes
\* the registry entry of a chat, or the busy flag of its registered session,
\* only when it is a step of an invocation for that chat or a reset of that
\* chat.
C21_KeysIndependent ==
    [][/\ \A h \in Handlers :
            (pc[h] \in Returned_pcs /\ pc'[h] \in {"rejecting", "ack1"})
            => (pc'[h] = "rejecting"
                  <=> (/\ sessions[chat_id'[h]] # NoSession
                       /\ is_busy[sessions[chat_id'[h]]]))
       /\ \A k \in Chats :
            (\/ sessions'[k] # sessions[k]
             \/ (sessions[k] # NoSession /\ is_busy'[sessions[k]] # is_busy[sessions[k]]))
            => \/ \E h \in Handlers :
                     pc'[h] # pc[h] /\ (chat_id[h] = k \/ chat_id'[h] = k)
               \/ /\ pc' = pc
                  /\ sessions'[k] = NoSession
                  /\ \A j \in Chats \ {k} : sessions'[j] = sessions[j]]_vars

C21_Witness ==
    /\ pc["h1"] = "chat" /\ chat_id["h1"] = "c1"
    /\ pc["h2"] = "chat" /\ chat_id["h2"] = "c2"
    /\ sessions["c1"] = session["h1"]
    /\ sessions["c2"] = session["h2"]
    /\ is_busy[session["h1"]] /\ is_busy[session["h2"]]

\* C22: every run starts from a new agent system and a group chat that
\* holds the task only, so the flag is set by a classification of this run
\* or not at all, and a run in which no hook call ended the chat returns
\* (FALSE, "") even when the session's previous run had terminated.
C22_FreshConversation ==
    /\ [](\A h \in Handlers :
            (pc[h] = "report" /\ \A i \in DOMAIN classified[h] : classified[h][i][3] # "stop")
            => result[h] = [kind |-> "returned", terminated |-> FALSE, final |-> <<>>])
    /\ [](\A h \in Handlers :
            agent[h].termination_detected
            => \E i \in DOMAIN classified[h] : classified[h][i][3] \in {"stop", "raise"})
    /\ [][\A h \in Handlers :
            (pc[h] = "run_start" /\ pc'[h] # "run_start")
            => /\ messages'[h] \in {<<>>, <<<<"user_proxy", text[h]>>>>}
               /\ Len(classified'[h]) <= 1]_vars

C22_Witness ==
    /\ pc["h1"] = "done"
    /\ reported["h1"] = <<"success">>
    /\ pc["h2"] = "report"
    /\ session["h2"] = sessions["c1"]
    /\ Len(messages["h2"]) = max_round
    /\ result["h2"] = [kind |-> "returned", terminated |-> FALSE, final |-> <<>>]

\* The text without the execution banner and the exit status: an ordinary
\* word in their place.
C23_Plain(raw) == [i \in DOMAIN raw |-> IF raw[i] = "ex" THEN "w" ELSE raw[i]]

\* A text the hook neither skips nor takes as the final answer.
C23_Content(raw) ==
    /\ Strip(raw) # <<>>
    /\ ~Contains(Strip(raw), "NS")
    /\ ~Contains(Lower(Strip(raw)), "ns")
    /\ ~Contains(Lower(Strip(raw)), "hh")
    /\ ~Contains(Upper(Strip(raw)), "TERM")

\* C23: a hook call on a Content text with the execution banner or the exit
\* status leaves the termination flag and the final answer, returns, and
\* sends or fails to send, exactly as the call on the same text without
\* them does from the same state; only the display role, and the banner in
\* the text sent, differ.
C23_TagIsMetadata ==
    [][(Classifies("h1") /\ C23_Content(text["h1"]) /\ Contains(text["h1"], "ex"))
       => \E o \in ClassifyOutcomes :
            LET plain == HandleMessage(agent["h1"], delivered["h1"], Call("h1")[1],
                                       C23_Plain(text["h1"]), o)
                with == delivered'["h1"]
            IN  /\ agent'["h1"] = plain.a
                /\ agent'["h1"] = agent["h1"]
                /\ Call("h1")[3] = Ret(plain)
                /\ Len(with) = Len(plain.log)
                /\ \A i \in DOMAIN with :
                     \/ with[i] = plain.log[i]
                     \/ /\ i = Len(with)
                        /\ Len(with) = Len(delivered["h1"]) + 1
                        /\ with[i] = <<Strip(text["h1"]), "Executor (code)">>
                        /\ plain.log[i] = <<Strip(C23_Plain(text["h1"])), ROLES(Call("h1")[1])>>]_vars

C23_Witness ==
    /\ pc["h1"] = "classify"
    /\ C23_Content(text["h1"])
    /\ Contains(text["h1"], "ex")
    /\ Len(classified["h1"]) = 2
    /\ classified["h1"][1][3] = "raise"
    /\ classified["h1"][2][3] = "continue"
    /\ delivered["h1"] = <<<<Strip(text["h1"]), "Executor (code)">>>>
    /\ ~agent["h1"].termination_detected

\* C24: the task is only the first message of the group chat and no hook
\* call classifies it: a run that returns terminated = TRUE has had at least
\* one collaborator turn, and the hook call that ended it was on a reply.
C24_TaskOnlySeeded ==
    \A h \in Handlers :
        (pc[h] = "report" /\ result[h].terminated)
        => /\ Len(messages[h]) >= 2
           /\ \E i \in DOMAIN classified[h] :
                classified[h][i][3] = "stop" /\ classified[h][i][1] # "manager"

\* C25: the end of an invocation clears the busy flag of the Session object
\* it acquired and of no other: the session of an accepted invocation stays
\* busy until that invocation ends, also when an older run of the same chat,
\* started before a reset on another Session object, ends meanwhile.
C25_ReleaseOwnOnly ==
    /\ [](\A h \in Handlers : InFlight(h) => (session[h] # NoSession /\ is_busy[session[h]]))
    /\ [][\A g, h \in Handlers :
            (/\ g # h
             /\ pc[g] \in {"report", "error_report"}
             /\ pc'[g] = "done"
             /\ InFlight(h))
            => /\ is_busy'[session[h]] = is_busy[session[h]]
               /\ (session[g] # session[h] => ~is_busy'[session[g]])]_vars

C25_Witness ==
    /\ pc["h1"] = "done"
    /\ reported["h1"] # <<>>
    /\ reported["h1"][Len(reported["h1"])] \in {"success", "incomplete", "error"}
    /\ InFlight("h2")
    /\ chat_id["h2"] = "c1"
    /\ session["h2"] = 2
    /\ sessions["c1"] = 2
    /\ is_busy[2]
    /\ ~is_busy[1]

\* C26: in every state of a run the final answer is non-empty exactly when
\* termination has been detected, and so is the pair a run returns.
C26_AnswerIffTerminated ==
    \A h \in Handlers :
        /\ agent[h].termination_detected <=> agent[h].last_message # <<>>
        /\ result[h].kind = "returned" => (result[h].terminated <=> result[h].final # <<>>)

\* C27: an accepted submission ends with exactly one outcome notice, sent
\* while its session is still busy: success when the run returned
\* terminated, incomplete when it returned without termination, error in
\* every other case.
C27_OneOutcome ==
    [][\A h \in Handlers :
         (pc[h] \in {"report", "error_report"} /\ pc'[h] = "done")
         => /\ is_busy[session[h]]
            /\ reported'[h] = << IF result[h].kind # "returned" THEN "error"
                                 ELSE IF result[h].terminated THEN "success"
                                 ELSE "incomplete" >>]_vars

=============================================================================
